---------------------------- MODULE Spec2Model ----------------------------
(***************************************************************************)
(* Kaelion AI front end: the pad sampler of AnalyzerCard, the detection    *)
(* gate of the StripAnalyzer frame loops, and the calibration / diagnosis  *)
(* boundary used by App.                                                   *)
(*                                                                         *)
(* Colours are records [r, g, b] of integers.  Times are Date.now()        *)
(* readings in milliseconds.  Detector confidences are in hundredths       *)
(* (0.75 is 75).                                                           *)
(***************************************************************************)
EXTENDS Integers, Sequences, FiniteSets, TLC

VARIABLES
    \* ---- AnalyzerCard.computePadsFromImage (one promise at a time) ----
    psPc,        \* "idle" | "loading" | "resolved" | "rejected"
    psCanvas,    \* the image as drawn on the W x H working canvas
    psCount,     \* padsCount argument
    psPads       \* value the promise resolved with (sequence of colours)

psVars == <<psPc, psCanvas, psCount, psPads>>

VARIABLES
    \* ---- StripAnalyzer frame loop (one mounted component) ----
    variant,     \* which StripAnalyzer is mounted: "yolo" | "fomo" | "fomoCal" | "ssd"
    now,         \* Date.now()
    loops,       \* one record per run of the frame-loop effect (its closure)
    cur,         \* index in loops of the effect run whose cleanup has not run yet
    inflight,    \* requests sent to the backend and not yet answered or failed,
                 \* in the order they were sent
    accepted     \* history: the last two accepted detections, oldest first

flVars == <<variant, now, loops, cur, inflight, accepted>>

VARIABLES
    \* ---- App state and one diagnosis request ----
    refMap,      \* App: mapping saved by handleMappingUpdated, or null
    diagnosis,   \* App: what DiagnosisCard shows, or null
    captured,    \* App: the captured image (the number of its capture), or null
    diagImage,   \* history: the image the shown diagnosis was computed from
                 \* (0 when none is shown)
    dgPc,        \* "idle" | "fetching" | "responded" | "done"
    dgPads,      \* pads handleDiagnosisRequest was called with
    dgBody,      \* body of the POST /diagnose in flight
    dgResp,      \* response of the backend
    dgRet,       \* value handleDiagnosisRequest returned (null when it failed)
    dgOutcome    \* "ok", "noCalibration", "fetchFailed" or the backend's error

dgVars == <<refMap, diagnosis, captured, diagImage,
            dgPc, dgPads, dgBody, dgResp, dgRet, dgOutcome>>

VARIABLES
    \* ---- AnalyzerCard: handleCalibrate and handleAnalyze ----
    loading,     \* AnalyzerCard: the loading flag (both buttons disabled)
    message,     \* AnalyzerCard: the message shown, [text, detail]
    acPc,        \* "idle" | "calibrating" | "calibrated" | "sampling" | "diagnosing"
    cbSamples,   \* the rows the calibration backend sampled from the chart
    cbResp,      \* response of POST /calibrate
    cbOutcome,   \* how the last handleCalibrate ended: "ok", "fetchFailed",
                 \* "noMapping" or the backend's error; "" while a handler runs
    acPrev,      \* history: refMap when the last handleCalibrate started
    acImage      \* the imageDataUrl of the render handleAnalyze was called in
                 \* (0 before any call)

acVars == <<loading, message, acPc, cbSamples, cbResp, cbOutcome, acPrev, acImage>>

VARIABLES
    \* ---- useEIWasm.waitForEI: one promise ----
    wfTimeout,   \* the timeout argument (ms)
    wfInterval,  \* the interval argument (ms)
    wfClock,     \* Date.now()
    wfStart,     \* start = Date.now() taken when the promise was created
    wfEI,        \* window.EI is present
    wfDue,       \* when the pending setTimeout(check, interval) is due, or NoTimer
    wfPc,        \* "polling" | "resolved" | "rejected"
    wfSettled,   \* how many times resolve or reject was called
    wfLast       \* history: the last check that ran, [at, ei]

wfVars == <<wfTimeout, wfInterval, wfClock, wfStart, wfEI, wfDue, wfPc, wfSettled, wfLast>>

VARIABLES
    \* ---- useEIWasm: the load effect of one mounted hook ----
    hkPc,        \* load(): "waiting" | "loading" | "done"
    hkCancelled, \* the effect's cancelled flag
    hkReady,     \* state ready
    hkError,     \* state error: null or the message
    hkRunner,    \* runnerRef.current: null or the instance
    hkInstance,  \* what window.EI.loadImpulse resolved with, or null
    hkAtCleanup  \* history: [ready, error] when the cleanup ran, or null

hkVars == <<hkPc, hkCancelled, hkReady, hkError, hkRunner, hkInstance, hkAtCleanup>>

VARIABLES
    \* ---- StripAnalyzer model loading (one mounted component) ----
    ldVariant,   \* "yolo" (loadWasm) | "raw" (loadModel of the raw-module variant)
    ldPc,        \* where the loader is
    ldLoading,   \* state isLoading
    ldClassifier,\* state classifier / runner is set
    ldError,     \* state errorMsg
    ldCount,     \* count of waitForGlobal
    ldGlobal,    \* "factory" (window.EdgeImpulse), "module" (window.Module.run_classifier)
                 \* or "none"
    ldRuntime    \* the Emscripten runtime: "none" | "starting" | "ready" | "aborted"

ldVars == <<ldVariant, ldPc, ldLoading, ldClassifier, ldError, ldCount, ldGlobal, ldRuntime>>

VARIABLES
    \* ---- EdgeImpulseClassifier.classify: one call ----
    clPc,        \* "idle" | "allocated" | "extracting" | "returned" | "threw"
    clInit,      \* this._initialized
    clError,     \* message of the Error thrown, "" when none
    clMallocs,   \* calls of module._malloc
    clBytes,     \* size of the buffer asked of _malloc
    clFrees,     \* calls of module._free on the buffer
    clRet,       \* the native result: [made, result, size, deletes]
    clDets,      \* per detection i: [got, deletes] (ret.get(i) calls, c.delete() calls)
    clResults    \* jsResult.results: how many entries were pushed

clVars == <<clPc, clInit, clError, clMallocs, clBytes, clFrees, clRet, clDets, clResults>>

\* Everything of the WASM bridge and its loaders.
\* The tuples of variables, the ...Off states of the machines a specification
\* leaves idle and the Init... conjunctions compose the machines; they stand
\* for no code of their own.
wasmVars == <<wfVars, hkVars, ldVars, clVars>>

vars == <<wfVars, hkVars, ldVars, clVars,
          psPc, psCanvas, psCount, psPads,
          variant, now, loops, cur, inflight, accepted,
          refMap, diagnosis, captured, diagImage,
          dgPc, dgPads, dgBody, dgResp, dgRet, dgOutcome,
          loading, message, acPc, cbSamples, cbResp, cbOutcome, acPrev, acImage>>

-----------------------------------------------------------------------------
(* Generic helpers *)

Max(a, b) == IF a >= b THEN a ELSE b
Min(a, b) == IF a <= b THEN a ELSE b

RGB(r, g, b) == [r |-> r, g |-> g, b |-> b]

-----------------------------------------------------------------------------
(* PadSampler: AnalyzerCard.computePadsFromImage *)

\* Bounds of the sampled inputs.
MaxH == 5          \* working heights 0..MaxH
MaxPads == 3       \* pad counts 1..MaxPads

W == 640

\* Colours the test images are painted with.
Palette == { RGB(0, 0, 0), RGB(255, 255, 255), RGB(10, 201, 77) }
RowPalette == { RGB(255, 255, 255), RGB(10, 201, 77) }
Edges == { 100, W }

\* A working canvas after ctx.drawImage(img, 0, 0, W, H): row y is painted
\* rows[y+1] left of column `edge` and `bg` from there on.  H is
\* Math.round((img.height / img.width) * W), which is 0 for a very wide image.
Canvases ==
    { [h |-> Len(rows), rows |-> rows, edge |-> e, bg |-> RGB(0, 0, 0)] :
        rows \in UNION { [1..hh -> RowPalette] : hh \in 0..MaxH }, e \in Edges }

NoCanvas == [h |-> 0, rows |-> <<>>, edge |-> 0, bg |-> RGB(0, 0, 0)]

\* One pixel of ctx.getImageData: outside the canvas bitmap the data is
\* transparent black.
Pixel(canvas, x, y) ==
    IF x >= 0 /\ x < W /\ y >= 0 /\ y < canvas.h
    THEN IF x < canvas.edge THEN canvas.rows[y + 1] ELSE canvas.bg
    ELSE RGB(0, 0, 0)

Chan(c, ch) == IF ch = "r" THEN c.r ELSE IF ch = "g" THEN c.g ELSE c.b

\* Sum of one channel over columns xa..xb-1 of row y.
RECURSIVE RowSum(_, _, _, _, _)
RowSum(canvas, ch, y, xa, xb) ==
    IF xb <= xa THEN 0
    ELSE IF xb = xa + 1 THEN Chan(Pixel(canvas, xa, y), ch)
    ELSE LET m == (xa + xb) \div 2
         IN RowSum(canvas, ch, y, xa, m) + RowSum(canvas, ch, y, m, xb)

\* Sum of one channel over the imgData of getImageData(x, y, w, hh).
RECURSIVE RectSum(_, _, _, _, _, _)
RectSum(canvas, ch, x, y, w, hh) ==
    IF hh <= 0 THEN 0
    ELSE RowSum(canvas, ch, y, x, x + w)
         + RectSum(canvas, ch, x, y + 1, w, hh - 1)

\* Math.floor(v * 0.15) and Math.floor(v * 0.85) for a non-negative integer v.
Floor15(v) == (v * 15) \div 100
Floor85(v) == (v * 85) \div 100

\* Bug variant of MathRound: the mean is truncated.
MathTrunc(s, c) == s \div c

\* Math.round(s / c) for s >= 0, c > 0 (ties round up).
MathRound(s, c) == (2 * s + c) \div (2 * c)

padH(H, padsCount) == H \div padsCount
BandY0(i, H, padsCount) == i * padH(H, padsCount)

\* Bug variant of BandH: the last band does not absorb the remainder.
BandHNoRemainder(i, H, padsCount) == padH(H, padsCount)

BandH(i, H, padsCount) ==
    IF i = padsCount - 1 THEN H - BandY0(i, H, padsCount) ELSE padH(H, padsCount)

\* y2 - y1 of band i: the inset row span before Math.max(4, .) is applied.
InsetSpan(i, H, padsCount) ==
    Floor85(BandH(i, H, padsCount)) - Floor15(BandH(i, H, padsCount))

\* The rectangle [x, y, w, hh] sampled for band i (0-based).
SampleRect(i, H, padsCount) ==
    LET y0 == BandY0(i, H, padsCount)
        h  == BandH(i, H, padsCount)
        x1 == Floor15(W)
        x2 == Floor85(W)
        y1 == y0 + Floor15(h)
        y2 == y0 + Floor85(h)
    IN [x |-> x1, y |-> y1, w |-> x2 - x1, hh |-> Max(4, y2 - y1)]

\* One iteration of the for loop: the colour pushed for band i.
PadColor(canvas, i, padsCount) ==
    LET q == SampleRect(i, canvas.h, padsCount)
    IN IF q.w <= 0 \/ q.hh <= 0
       THEN RGB(255, 255, 255)
       ELSE LET c == q.w * q.hh
            IN RGB(MathRound(RectSum(canvas, "r", q.x, q.y, q.w, q.hh), c),
                   MathRound(RectSum(canvas, "g", q.x, q.y, q.w, q.hh), c),
                   MathRound(RectSum(canvas, "b", q.x, q.y, q.w, q.hh), c))

\* Bug variant of PadsLoop: the loop runs once too often (i <= padsCount).
RECURSIVE PadsLoopOffByOne(_, _, _, _)
PadsLoopOffByOne(canvas, i, padsCount, pads) ==
    IF i <= padsCount
    THEN PadsLoopOffByOne(canvas, i + 1, padsCount,
                          Append(pads, PadColor(canvas, i, padsCount)))
    ELSE pads

\* The pads array after the loop has run for i = 0 .. padsCount-1.
RECURSIVE PadsLoop(_, _, _, _)
PadsLoop(canvas, i, padsCount, pads) ==
    IF i < padsCount
    THEN PadsLoop(canvas, i + 1, padsCount,
                  Append(pads, PadColor(canvas, i, padsCount)))
    ELSE pads

\* computePadsFromImage(dataUrl, padsCount): creates the Image and sets src.
\* Every call makes a fresh promise and repaints the whole canvas, so one call
\* per behaviour covers them all.
computePadsFromImage(canvas, padsCount) ==
    /\ psPc = "idle"
    /\ psPc' = "loading"
    /\ psCanvas' = canvas
    /\ psCount' = padsCount
    /\ psPads' = <<>>

\* img.onload: draws the canvas, samples every band, resolves with pads.
ImgOnLoad ==
    /\ psPc = "loading"
    /\ psPads' = PadsLoop(psCanvas, 0, psCount, <<>>)
    /\ psPc' = "resolved"
    /\ UNCHANGED <<psCanvas, psCount>>

\* img.onerror: rejects with "Could not load image".
ImgOnError ==
    /\ psPc = "loading"
    /\ psPc' = "rejected"
    /\ UNCHANGED <<psCanvas, psCount, psPads>>

PsInit ==
    /\ psPc = "idle"
    /\ psCanvas = NoCanvas
    /\ psCount = 0
    /\ psPads = <<>>

PsNext ==
    \/ \E canvas \in Canvases, n \in 1..MaxPads :
          computePadsFromImage(canvas, n) /\ UNCHANGED <<wasmVars, flVars, dgVars, acVars>>
    \/ ImgOnLoad /\ UNCHANGED <<wasmVars, flVars, dgVars, acVars>>
    \/ ImgOnError /\ UNCHANGED <<wasmVars, flVars, dgVars, acVars>>


-----------------------------------------------------------------------------
(* Detection gate: the frame-loop effects of StripAnalyzer *)

\* Bounds of the sampled inputs.
StartTime == 10000   \* Date.now() when the first frame loop starts
TickMs == 1500       \* granularity of the clock
MaxTicks == 3        \* the clock runs from StartTime to StartTime + MaxTicks*TickMs
MaxLoops == 2        \* runs of the frame-loop effect in one component lifetime
MaxPending == 2      \* animation-frame callbacks pending for one effect run

Variants == {"yolo", "fomo", "fomoCal", "ssd"}

\* Acceptance threshold of each frame loop, in hundredths.
YoloThreshold == 75
FomoThreshold == 50
CONF_THRESHOLD == 50
SsdThreshold == 60

\* Cooldown of each frame loop, in ms.
sendCooldown == 3000
FomoCooldown == 2000
SEND_COOLDOWN_MS == 1500
SsdCooldown == 2000

Threshold(v) ==
    IF v = "yolo" THEN YoloThreshold
    ELSE IF v = "fomo" THEN FomoThreshold
    ELSE IF v = "fomoCal" THEN CONF_THRESHOLD
    ELSE SsdThreshold

Cooldown(v) ==
    IF v = "yolo" THEN sendCooldown
    ELSE IF v = "fomo" THEN FomoCooldown
    ELSE IF v = "fomoCal" THEN SEND_COOLDOWN_MS
    ELSE SsdCooldown

\* The camera frame and the detector input of the YOLO component.
videoWidth == 640
videoHeight == 480
modelWidth == 320
modelHeight == 320

Labels == {"urine_strip", "reference_chart"}
ConfValues == {50, 60, 75, 80, 90}
Det(l, v, q) == [label |-> l, value |-> v, x |-> q.x, y |-> q.y,
                 width |-> q.width, height |-> q.height]
GoodBox == [x |-> 10, y |-> 20, width |-> 100, height |-> 40]
FlatBox == [x |-> 10, y |-> 20, width |-> 0, height |-> 40]
LeftBox == [x |-> -10, y |-> 20, width |-> 100, height |-> 40]     \* partly left of the frame
RightBox == [x |-> 300, y |-> 20, width |-> 100, height |-> 40]    \* partly right of it
OutsideBox == [x |-> 330, y |-> 20, width |-> 100, height |-> 40]  \* wholly right of it

\* What classify() reports for one object.
Dets == { Det(l, v, GoodBox) : l \in Labels, v \in ConfValues }
           \cup { Det("urine_strip", 90, q) : q \in {FlatBox, LeftBox, RightBox, OutsideBox} }
NoDet == [label |-> "", value |-> 0, x |-> 0, y |-> 0, width |-> 0, height |-> 0]

\* result.results of one frame.
SecondDets == { Det("urine_strip", 90, GoodBox), Det("reference_chart", 90, GoodBox) }
Frames == {<<>>} \cup { <<d>> : d \in Dets }
             \cup { <<d, e>> : d \in Dets, e \in SecondDets }

\* The closure of one run of the frame-loop effect.
\* noRegion is history: the last frame this run processed passed the gate and
\* captureCrop returned null.  starved is history: the last frame this run
\* processed held a strip that passes the gate with a non-empty crop, and the
\* step sent nothing.
NewLoop == [lastSent |-> 0, pending |-> 1, susp |-> "none",
            det |-> NoDet, nowAt |-> 0, noRegion |-> FALSE, starved |-> FALSE]

\* History of accepted detections: the last two are kept.
Record(hist, a) == IF Len(hist) < 2 THEN Append(hist, a) ELSE <<hist[2], a>>

\* An accepted detection: its confidence and the Date.now() reading `at` with
\* which it passed the gate.
Acceptance(det, at) == [conf |-> det.value, at |-> at]

\* A request of effect run L that passed the gate at the reading `gate`.
Request(L, gate) == [loop |-> L, gate |-> gate]

\* result.results.sort((a, b) => b.value - a.value)[0]: the first detection
\* of the highest value (Array.prototype.sort is stable).
BestDet(frame) ==
    frame[CHOOSE k \in 1..Len(frame) :
            \A j \in 1..Len(frame) :
               \/ frame[j].value < frame[k].value
               \/ (frame[j].value = frame[k].value /\ j >= k)]

\* captureCrop up to its early return: the source rectangle of drawImage, or
\* NoCrop when w <= 0 or h <= 0.  The boxes of the model scale to integers.
NoCrop == [x |-> 0, y |-> 0, w |-> 0, h |-> 0]
captureCrop(det) ==
    LET x == Max(0, (det.x * videoWidth) \div modelWidth)
        y == Max(0, (det.y * videoHeight) \div modelHeight)
        w == (det.width * videoWidth) \div modelWidth
        h == (det.height * videoHeight) \div modelHeight
    IN IF w <= 0 \/ h <= 0 THEN NoCrop ELSE [x |-> x, y |-> y, w |-> w, h |-> h]

\* ctx.drawImage(video, x, y, w, h, ...): the part of the frame that is read.
\* A source rectangle reaching outside the frame is clipped to it.
drawImageSource(c) ==
    LET x0 == Min(Max(c.x, 0), videoWidth)
        y0 == Min(Max(c.y, 0), videoHeight)
        x1 == Min(Max(c.x + c.w, 0), videoWidth)
        y1 == Min(Max(c.y + c.h, 0), videoHeight)
    IN [x |-> x0, y |-> y0, w |-> x1 - x0, h |-> y1 - y0]

\* Bug variant of LastSentAfterNoRegion: lastSent = now outside if (cropBlob).
LastSentAdvanced(L) == now

\* lastSent of run L after captureCrop returned null: if (cropBlob) is
\* skipped, so it keeps its value.
LastSentAfterNoRegion(L) == loops[L].lastSent

\* Bug variant of YoloGate: the cooldown test is missing.
YoloGateNoCooldown(L, det) ==
    /\ det.value > YoloThreshold
    /\ det.label = "urine_strip"

\* The gate of the YOLO processFrame on the best detection of the frame.
YoloGate(L, det) ==
    /\ det.value > YoloThreshold
    /\ now - loops[L].lastSent > sendCooldown
    /\ det.label = "urine_strip"

\* The gate inside result.results.forEach of the FOMO loop.
FomoGate(lastSent, det) ==
    /\ det.value > FomoThreshold
    /\ now - lastSent > FomoCooldown
    /\ det.label = "urine_strip"

\* The gate inside the for loop of the FOMO /calibrate process.
FomoCalGate(lastSent, det) ==
    /\ det.value >= CONF_THRESHOLD
    /\ now - lastSent > SEND_COOLDOWN_MS

\* The gate inside boxes.forEach of the object-detection processFrame.
SsdGate(lastSent, det) ==
    /\ det.value > SsdThreshold
    /\ now - lastSent > SsdCooldown
    /\ det.label = "urine_strip"

Gate(v, lastSent, det) ==
    IF v = "fomo" THEN FomoGate(lastSent, det)
    ELSE IF v = "fomoCal" THEN FomoCalGate(lastSent, det)
    ELSE SsdGate(lastSent, det)

\* forEach over the detections of one frame: st carries the closure's
\* lastSent, the requests in flight and the history through the iteration.
RECURSIVE ForEachDet(_, _, _, _, _)
ForEachDet(v, L, frame, k, st) ==
    IF k > Len(frame) THEN st
    ELSE IF Gate(v, st.lastSent, frame[k])
         THEN ForEachDet(v, L, frame, k + 1,
                  [lastSent |-> now,
                   inflight |-> Append(st.inflight, Request(L, now)),
                   accepted |-> Record(st.accepted, Acceptance(frame[k], now))])
         ELSE ForEachDet(v, L, frame, k + 1, st)

LoopState(L) ==
    [lastSent |-> loops[L].lastSent, inflight |-> inflight, accepted |-> accepted]

Live(L) == L \in 1..Len(loops)

\* An animation-frame callback of effect run L fires while the video is not
\* ready: the step only schedules the next frame.  In the /calibrate process
\* the early return sits inside try/finally, so two callbacks get scheduled.
FrameNotReady(L) ==
    /\ Live(L)
    /\ loops[L].pending > 0
    /\ IF variant = "fomoCal"
       THEN /\ loops[L].pending < MaxPending
            /\ loops' = [loops EXCEPT ![L].pending = @ + 1]
       ELSE loops' = loops
    /\ UNCHANGED <<variant, now, cur, inflight, accepted>>

\* classify() throws: the YOLO and object-detection steps catch it and go on,
\* the /calibrate process catches it too; the FOMO loop has no try, so the
\* callback ends before it schedules the next frame.
FrameClassifyThrows(L) ==
    /\ Live(L)
    /\ loops[L].pending > 0
    /\ loops[L].susp = "none"
    /\ IF variant = "fomo"
       THEN loops' = [loops EXCEPT ![L].pending = @ - 1]
       ELSE loops' = loops
    /\ UNCHANGED <<variant, now, cur, inflight, accepted>>

\* A detection of the frame passes the YOLO gate for run L and its crop is
\* non-empty.
HasQualifyingStrip(L, frame) ==
    \E k \in 1..Len(frame) :
        YoloGate(L, frame[k]) /\ captureCrop(frame[k]) # NoCrop

\* YOLO processFrame on a ready video, up to `await captureCrop`.  A null
\* crop resumes in a microtask, so that case is finished here; otherwise the
\* step stays suspended until toBlob calls back.
YoloProcessFrame(L, frame) ==
    /\ variant = "yolo"
    /\ Live(L)
    /\ loops[L].pending > 0
    /\ LET gate == Len(frame) > 0 /\ YoloGate(L, BestDet(frame))
           crop == IF gate THEN captureCrop(BestDet(frame)) ELSE NoCrop
       IN loops' = [loops EXCEPT ![L] =
                       IF gate /\ crop # NoCrop
                       THEN [@ EXCEPT !.pending = 0, !.susp = "crop",
                                      !.det = BestDet(frame), !.nowAt = now,
                                      !.noRegion = FALSE, !.starved = FALSE]
                       ELSE IF gate
                       THEN [@ EXCEPT !.lastSent = LastSentAfterNoRegion(L),
                                      !.noRegion = TRUE,
                                      !.starved = HasQualifyingStrip(L, frame)]
                       ELSE [@ EXCEPT !.noRegion = FALSE,
                                      !.starved = HasQualifyingStrip(L, frame)]]
    /\ UNCHANGED <<variant, now, cur, inflight, accepted>>

\* toBlob calls back: sendToBackend(cropBlob, bestDet) issues the fetch,
\* lastSent = now (the reading taken before the await), next frame scheduled.
\* The crop canvas has a positive size here, so toBlob delivers a blob.
YoloCropDone(L) ==
    /\ variant = "yolo"
    /\ Live(L)
    /\ loops[L].susp = "crop"
    /\ inflight' = Append(inflight, Request(L, loops[L].nowAt))
    /\ accepted' = Record(accepted, Acceptance(loops[L].det, loops[L].nowAt))
    /\ loops' = [loops EXCEPT ![L] =
                    [@ EXCEPT !.lastSent = loops[L].nowAt, !.pending = 1,
                              !.susp = "none", !.det = NoDet, !.nowAt = 0]]
    /\ UNCHANGED <<variant, now, cur>>

\* FOMO loop (sendToBackend(det) issues the fetch) and /calibrate process
\* (onResult and fetch) on a ready video: synchronous steps.
FomoLoop(L, frame) ==
    /\ variant \in {"fomo", "fomoCal"}
    /\ Live(L)
    /\ loops[L].pending > 0
    /\ LET st == ForEachDet(variant, L, frame, 1, LoopState(L))
       IN /\ loops' = [loops EXCEPT ![L].lastSent = st.lastSent]
          /\ inflight' = st.inflight
          /\ accepted' = st.accepted
    /\ UNCHANGED <<variant, now, cur>>

\* Object-detection processFrame on a ready video, up to `await
\* runner.classify(features)`.
SsdProcessFrame(L) ==
    /\ variant = "ssd"
    /\ Live(L)
    /\ loops[L].pending > 0
    /\ loops' = [loops EXCEPT ![L] = [@ EXCEPT !.pending = 0, !.susp = "classify"]]
    /\ UNCHANGED <<variant, now, cur, inflight, accepted>>

\* classify resolves with the frame's boxes (or rejects: frame empty has the
\* same effect); the step runs its forEach and schedules the next frame.
SsdClassifyDone(L, frame) ==
    /\ variant = "ssd"
    /\ Live(L)
    /\ loops[L].susp = "classify"
    /\ LET st == ForEachDet(variant, L, frame, 1, LoopState(L))
       IN /\ loops' = [loops EXCEPT ![L] =
                          [@ EXCEPT !.lastSent = st.lastSent, !.pending = 1,
                                    !.susp = "none"]]
          /\ inflight' = st.inflight
          /\ accepted' = st.accepted
    /\ UNCHANGED <<variant, now, cur>>

\* The cleanup of effect run L: cancelAnimationFrame of the id scheduled last.
\* A callback that already fired (a step suspended at an await) is not
\* affected.
Cleanup(ls, L) ==
    IF L = 0 THEN ls
    ELSE [ls EXCEPT ![L].pending = Max(0, @ - 1)]

\* A dependency of the frame-loop effect changes ([classifier, modelDims],
\* [isReady, onResult], [runner, modelDims]): React runs the cleanup of the
\* current run and runs the effect again, with a new closure.
DependencyChange ==
    /\ cur # 0
    /\ Len(loops) < MaxLoops
    /\ loops' = Append(Cleanup(loops, cur), NewLoop)
    /\ cur' = Len(loops) + 1
    /\ UNCHANGED <<variant, now, inflight, accepted>>

\* The backend answers a request, or the fetch fails.
Respond(k) ==
    /\ k \in 1..Len(inflight)
    /\ inflight' = [j \in 1..(Len(inflight) - 1) |->
                       IF j < k THEN inflight[j] ELSE inflight[j + 1]]
    /\ UNCHANGED <<variant, now, loops, cur, accepted>>

Tick ==
    /\ now < StartTime + MaxTicks * TickMs
    /\ now' = now + TickMs
    /\ UNCHANGED <<variant, loops, cur, inflight, accepted>>

\* StripAnalyzer not mounted.
FlOff ==
    /\ variant = "none"
    /\ now = StartTime
    /\ loops = <<>>
    /\ cur = 0
    /\ inflight = <<>>
    /\ accepted = <<>>

\* The model is loaded and the frame-loop effect has run for the first time.
FlInit ==
    /\ variant \in Variants
    /\ now = StartTime
    /\ loops = <<NewLoop>>
    /\ cur = 1
    /\ inflight = <<>>
    /\ accepted = <<>>

FlNext ==
    \/ \E L \in 1..MaxLoops : FrameNotReady(L) /\ UNCHANGED <<wasmVars, psVars, dgVars, acVars>>
    \/ \E L \in 1..MaxLoops : FrameClassifyThrows(L) /\ UNCHANGED <<wasmVars, psVars, dgVars, acVars>>
    \/ \E L \in 1..MaxLoops, frame \in Frames :
          YoloProcessFrame(L, frame) /\ UNCHANGED <<wasmVars, psVars, dgVars, acVars>>
    \/ \E L \in 1..MaxLoops : YoloCropDone(L) /\ UNCHANGED <<wasmVars, psVars, dgVars, acVars>>
    \/ \E L \in 1..MaxLoops, frame \in Frames :
          FomoLoop(L, frame) /\ UNCHANGED <<wasmVars, psVars, dgVars, acVars>>
    \/ \E L \in 1..MaxLoops : SsdProcessFrame(L) /\ UNCHANGED <<wasmVars, psVars, dgVars, acVars>>
    \/ \E L \in 1..MaxLoops, frame \in Frames :
          SsdClassifyDone(L, frame) /\ UNCHANGED <<wasmVars, psVars, dgVars, acVars>>
    \/ DependencyChange /\ UNCHANGED <<wasmVars, psVars, dgVars, acVars>>
    \/ \E k \in 1..Len(inflight) : Respond(k) /\ UNCHANGED <<wasmVars, psVars, dgVars, acVars>>
    \/ Tick /\ UNCHANGED <<wasmVars, psVars, dgVars, acVars>>

-----------------------------------------------------------------------------
(* Diagnosis boundary: App.handleDiagnosisRequest, eiApi.diagnosePads and the
   DiagnosisMatcher behind POST /diagnose *)

\* Bound of the sampled inputs: pad sequences and reference maps of 0..MaxN rows.
MaxN == 2

\* The (analyte, level) pairs of the chart rows.
ChartLabels == { [analyte |-> "Glucose", level |-> "Negative"],
                 [analyte |-> "Protein", level |-> "Trace"] }

\* One row of a mapping returned by the calibration boundary.
RefRows == { [analyte |-> a.analyte, level |-> a.level, color |-> c] :
                a \in ChartLabels, c \in Palette }
RefMaps == UNION { [1..n -> RefRows] : n \in 0..MaxN }
PadSeqs == UNION { [1..n -> Palette] : n \in 0..MaxN }

\* A value that may be null.
Null == [some |-> FALSE]
Some(v) == [some |-> TRUE, v |-> v]

\* dMax^2 = 255^2 * 3.
dMax2 == 255 * 255 * 3

\* d^2 of step 1 of the matcher: squared RGB Euclidean distance.
ColorDist2(p, q) ==
    (p.r - q.r) * (p.r - q.r) + (p.g - q.g) * (p.g - q.g)
        + (p.b - q.b) * (p.b - q.b)

\* Step 2 of the matcher: clamp(1 - d/dMax, 0, 1).  A confidence c is held
\* exactly, as the integer e with c = 1 - sqrt(e / dMax2): 1 - d/dMax is at
\* most 1, and it is below 0, and clamped to 0, when d^2 exceeds dMax2.
Confidence(p, q) == Min(ColorDist2(p, q), dMax2)

ConfIsOne(c) == c = 0
ConfIsZero(c) == c = dMax2
ConfInUnitInterval(c) == c >= 0 /\ c <= dMax2
ConfHigher(c, d) == c < d          \* c is a higher confidence than d

\* The matcher on a reference map M and pads P of the same length.
DiagnosisMatcher(M, P) ==
    [k \in 1..Len(M) |->
        [analyte |-> M[k].analyte,
         diagnosis |-> M[k].level,
         confidence |-> Confidence(P[k], M[k].color)]]

\* POST /diagnose: the response to a request body.  An error response
\* carries the error and no diagnoses field.
DiagnoseEndpoint(body) ==
    IF Len(body.pads) # Len(body.ref_map)
    THEN [ok |-> FALSE, error |-> "ShapeMismatch",
          hasDiagnoses |-> FALSE, diagnoses |-> <<>>]
    ELSE [ok |-> TRUE, error |-> "",
          hasDiagnoses |-> TRUE,
          diagnoses |-> DiagnosisMatcher(body.ref_map, body.pads)]

\* Bug variants of DiagnoseBody: pads in reverse order, and a channel typo
\* (b read from p.g).
DiagnoseBodyReversed(padsArray, mapping) ==
    [pads |-> [k \in 1..Len(padsArray) |-> padsArray[Len(padsArray) + 1 - k]],
     ref_map |-> mapping]
DiagnoseBodyChannelTypo(padsArray, mapping) ==
    [pads |-> [k \in 1..Len(padsArray) |->
                  RGB(padsArray[k].r, padsArray[k].g, padsArray[k].g)],
     ref_map |-> mapping]

\* diagnosePads: the body it posts.
DiagnoseBody(padsArray, mapping) ==
    [pads |-> [k \in 1..Len(padsArray) |->
                  RGB(padsArray[k].r, padsArray[k].g, padsArray[k].b)],
     ref_map |-> mapping]

\* Bug variant of diagnosePadsResult: the resp.ok check is missing.
diagnosePadsResultUnchecked(resp) ==
    [threw |-> FALSE, message |-> "",
     json |-> [hasDiagnoses |-> resp.hasDiagnoses, diagnoses |-> resp.diagnoses]]

\* diagnosePads after the fetch resolved: throws when the response is not OK,
\* otherwise returns the parsed body.
diagnosePadsResult(resp) ==
    IF ~resp.ok
    THEN [threw |-> TRUE, message |-> resp.error,
          json |-> [hasDiagnoses |-> FALSE, diagnoses |-> <<>>]]
    ELSE [threw |-> FALSE, message |-> "",
          json |-> [hasDiagnoses |-> resp.hasDiagnoses, diagnoses |-> resp.diagnoses]]

\* The entry shown when the response has no diagnoses field (confidence: 0,
\* which is held as dMax2).
NoDiagnosesEntry ==
    [analyte |-> "error", diagnosis |-> "No diagnoses returned", confidence |-> dMax2]

\* Bug variant of NoRefMap: the if (!refMap) test is missing.
NoRefMapUnchecked(m) == FALSE

\* if (!refMap): no mapping is stored.
NoRefMap(m) == ~m.some

\* ref_map: refMap of the request body: the rows of the stored mapping (null
\* has none).
RefMapRows(m) == IF m.some THEN m.v ELSE <<>>

\* handleDiagnosisRequest({ pads }) up to `await diagnosePads(pads, refMap)`.
handleDiagnosisRequest(pads) ==
    /\ dgPc = "idle"
    /\ dgPads' = pads
    /\ IF NoRefMap(refMap)
       THEN /\ dgPc' = "done"
            /\ dgOutcome' = "noCalibration"
            /\ dgBody' = dgBody
       ELSE /\ dgPc' = "fetching"
            /\ dgOutcome' = dgOutcome
            /\ dgBody' = DiagnoseBody(pads, RefMapRows(refMap))
    /\ UNCHANGED <<refMap, diagnosis, captured, diagImage, dgResp, dgRet>>

\* The backend answers the request.
DiagnoseRespond ==
    /\ dgPc = "fetching"
    /\ dgResp' = DiagnoseEndpoint(dgBody)
    /\ dgPc' = "responded"
    /\ UNCHANGED <<refMap, diagnosis, captured, diagImage, dgPads, dgBody, dgRet, dgOutcome>>

\* The fetch rejects (network error): the catch block alerts and returns null.
DiagnoseFetchFails ==
    /\ dgPc = "fetching"
    /\ dgPc' = "done"
    /\ dgOutcome' = "fetchFailed"
    /\ dgRet' = Null
    /\ UNCHANGED <<refMap, diagnosis, captured, diagImage, dgPads, dgBody, dgResp>>

\* handleDiagnosisRequest resumes with the outcome of diagnosePads.
DiagnoseResume ==
    /\ dgPc = "responded"
    /\ dgPc' = "done"
    /\ LET res == diagnosePadsResult(dgResp)
       IN IF res.threw
          THEN /\ dgOutcome' = res.message
               /\ dgRet' = Null
               /\ diagnosis' = diagnosis
               /\ diagImage' = diagImage
          ELSE /\ dgOutcome' = "ok"
               /\ dgRet' = Some(res.json)
               /\ diagnosis' = IF res.json.hasDiagnoses
                                THEN Some(res.json.diagnoses)
                                ELSE Some(<<NoDiagnosesEntry>>)
               /\ diagImage' = acImage
    /\ UNCHANGED <<refMap, captured, dgPads, dgBody, dgResp>>

\* App not rendered / no diagnosis requested.
DgOff ==
    /\ refMap = Null
    /\ diagnosis = Null
    /\ captured = Null
    /\ diagImage = 0
    /\ dgPc = "idle"
    /\ dgPads = <<>>
    /\ dgBody = DiagnoseBody(<<>>, <<>>)
    /\ dgResp = DiagnoseEndpoint(DiagnoseBody(<<>>, <<>>))
    /\ dgRet = Null
    /\ dgOutcome = ""

\* App with no calibration yet, or holding a mapping saved by an earlier
\* handleMappingUpdated.
DgInit ==
    /\ refMap \in {Null} \cup { Some(m) : m \in RefMaps }
    /\ diagnosis = Null
    /\ captured = Null
    /\ diagImage = 0
    /\ dgPc = "idle"
    /\ dgPads = <<>>
    /\ dgBody = DiagnoseBody(<<>>, <<>>)
    /\ dgResp = DiagnoseEndpoint(DiagnoseBody(<<>>, <<>>))
    /\ dgRet = Null
    /\ dgOutcome = ""

DgNext ==
    \/ \E pads \in PadSeqs :
          handleDiagnosisRequest(pads) /\ UNCHANGED <<wasmVars, psVars, flVars, acVars>>
    \/ DiagnoseRespond /\ UNCHANGED <<wasmVars, psVars, flVars, acVars>>
    \/ DiagnoseFetchFails /\ UNCHANGED <<wasmVars, psVars, flVars, acVars>>
    \/ DiagnoseResume /\ UNCHANGED <<wasmVars, psVars, flVars, acVars>>

-----------------------------------------------------------------------------
(* AnalyzerCard in App: handleCalibrate with eiApi.calibrateChartFromDataUrl
   and the Calibrator behind POST /calibrate; handleAnalyze, which samples
   the captured image and hands the pads to App.handleDiagnosisRequest *)

\* Bound of the sampled inputs: the chart colours start at palette offsets
\* 0..MaxShift.
MaxShift == 1

\* expected_rows of the calibration request and the pad count of handleAnalyze.
expected_rows == 10
AnalyzePadsCount == 10

\* Working height of the captured images that handleAnalyze samples, and
\* the number of white rows at their top, 0..MaxStripe.
AppH == 20
MaxStripe == 3

\* The ordered (analyte, level) list the Calibrator is given.
CalibLabels ==
    << [analyte |-> "Leukocytes", level |-> "Negative"],
       [analyte |-> "Nitrite", level |-> "Negative"],
       [analyte |-> "Urobilinogen", level |-> "Normal"],
       [analyte |-> "Protein", level |-> "Trace"],
       [analyte |-> "pH", level |-> "6.0"],
       [analyte |-> "Blood", level |-> "Negative"],
       [analyte |-> "SpecificGravity", level |-> "1.015"],
       [analyte |-> "Ketone", level |-> "Negative"],
       [analyte |-> "Bilirubin", level |-> "Negative"],
       [analyte |-> "Glucose", level |-> "Negative"] >>

PaletteSeq == << RGB(255, 255, 255), RGB(10, 201, 77), RGB(0, 0, 0) >>

\* The rows the backend samples from a chart image: one short of
\* expected_rows, expected_rows, or one more.
ChartSamples ==
    { [i \in 1..k |-> PaletteSeq[((i + o) % 3) + 1]] :
        k \in (expected_rows - 1)..(expected_rows + 1), o \in 0..MaxShift }

\* Calibrator(samples, labels, expected_rows): zips by index.
Calibrator(samples, labels) ==
    [i \in 1..Len(samples) |->
        [analyte |-> labels[i].analyte, level |-> labels[i].level,
         color |-> samples[i]]]

\* POST /calibrate?expected_rows=n: the response for the rows sampled.
CalibrateEndpoint(samples, n) ==
    IF Len(samples) # n
    THEN [ok |-> FALSE, error |-> "CalibrationMismatch",
          hasMapping |-> FALSE, mapping |-> <<>>]
    ELSE [ok |-> TRUE, error |-> "",
          hasMapping |-> TRUE, mapping |-> Calibrator(samples, CalibLabels)]

\* A response that is OK and carries no mapping field.
NoMappingResponse ==
    [ok |-> TRUE, error |-> "", hasMapping |-> FALSE, mapping |-> <<>>]

NoResponse == [ok |-> FALSE, error |-> "", hasMapping |-> FALSE, mapping |-> <<>>]

\* Bug variant of calibrateResult: the resp.ok check is missing.
calibrateResultUnchecked(resp) ==
    [threw |-> FALSE, message |-> "",
     json |-> [hasMapping |-> resp.hasMapping, mapping |-> resp.mapping]]

\* calibrateChartFromDataUrl after the fetch resolved: throws when the
\* response is not OK, otherwise returns the parsed body.
calibrateResult(resp) ==
    IF ~resp.ok
    THEN [threw |-> TRUE, message |-> resp.error,
          json |-> [hasMapping |-> FALSE, mapping |-> <<>>]]
    ELSE [threw |-> FALSE, message |-> "",
          json |-> [hasMapping |-> resp.hasMapping, mapping |-> resp.mapping]]

Message(text, detail) == [text |-> text, detail |-> detail]

\* Bug variant of handleMappingUpdated: the mapping is not stored.
handleMappingUpdatedDropped(mapping) == refMap

\* App.handleMappingUpdated(mapping): the value refMap is set to.
handleMappingUpdated(mapping) == Some(mapping)

\* Bug variant of RefMapAfterCalibrate: res.mapping is saved without the
\* test, so a response without a mapping stores undefined.
RefMapSavedUnchecked(res) ==
    IF res.threw THEN refMap
    ELSE IF res.json.hasMapping THEN handleMappingUpdated(res.json.mapping)
    ELSE Null

\* refMap after handleCalibrate got res: onMappingUpdated(res.mapping) runs
\* only under if (res && res.mapping).
RefMapAfterCalibrate(res) ==
    IF ~res.threw /\ res.json.hasMapping
    THEN handleMappingUpdated(res.json.mapping)
    ELSE refMap

\* Bug variant of RefMapAfterCapture: the capture drops the mapping.
RefMapClearedOnCapture == Null

\* App.handleCapture(img): refMap is not touched.
RefMapAfterCapture == refMap

\* The Calibrate and Analyze buttons are rendered only with an image, and
\* carry disabled={loading}.
ButtonsRendered == captured.some
ButtonsDisabled == loading

\* Bug variant of LoadingAfterHandler: finally does not reset the flag.
LoadingLeftSet == loading

\* finally { setLoading(false) } of handleCalibrate and handleAnalyze.
LoadingAfterHandler == FALSE

\* handleCalibrate up to `await calibrateChartFromDataUrl(imageDataUrl)`.
handleCalibrate ==
    /\ ButtonsRendered
    /\ ~ButtonsDisabled
    /\ loading' = TRUE
    /\ message' = Message("Uploading chart for calibration...", "")
    /\ acPc' = "calibrating"
    /\ cbOutcome' = ""
    /\ acPrev' = refMap
    /\ UNCHANGED <<cbSamples, cbResp, acImage>>

\* The backend samples the chart and answers.
CalibrateRespond(samples) ==
    /\ acPc = "calibrating"
    /\ cbSamples' = samples
    /\ cbResp' = CalibrateEndpoint(samples, expected_rows)
    /\ acPc' = "calibrated"
    /\ UNCHANGED <<loading, message, cbOutcome, acPrev, acImage>>

\* The backend answers OK with a body that has no mapping.
CalibrateRespondNoMapping ==
    /\ acPc = "calibrating"
    /\ cbSamples' = <<>>
    /\ cbResp' = NoMappingResponse
    /\ acPc' = "calibrated"
    /\ UNCHANGED <<loading, message, cbOutcome, acPrev, acImage>>

\* The fetch rejects (network error): catch and finally of handleCalibrate.
CalibrateFetchFails ==
    /\ acPc = "calibrating"
    /\ message' = Message("Calibration failed", "fetchFailed")
    /\ cbOutcome' = "fetchFailed"
    /\ loading' = LoadingAfterHandler
    /\ acPc' = "idle"
    /\ UNCHANGED <<cbSamples, cbResp, acPrev, acImage>>

\* handleCalibrate resumes with the outcome of calibrateChartFromDataUrl.
CalibrateResume ==
    /\ acPc = "calibrated"
    /\ LET res == calibrateResult(cbResp)
       IN /\ refMap' = RefMapAfterCalibrate(res)
          /\ IF res.threw
             THEN /\ message' = Message("Calibration failed", res.message)
                  /\ cbOutcome' = res.message
             ELSE IF res.json.hasMapping
             THEN /\ message' = Message("Calibration successful. Mapping saved.", "")
                  /\ cbOutcome' = "ok"
             ELSE /\ message' = Message("Calibration failed", "Invalid mapping returned")
                  /\ cbOutcome' = "noMapping"
    /\ loading' = LoadingAfterHandler
    /\ acPc' = "idle"
    /\ UNCHANGED <<cbSamples, cbResp, acPrev, acImage>>

\* The captured image, drawn on the working canvas: white rows above row b,
\* green rows from there on.
StripeCanvas(H, b) ==
    [h |-> H, rows |-> [y \in 1..H |-> IF y <= b THEN RGB(255, 255, 255)
                                       ELSE RGB(10, 201, 77)],
     edge |-> W, bg |-> RGB(0, 0, 0)]
AppCanvases == { StripeCanvas(AppH, b) : b \in 0..MaxStripe }

\* handleAnalyze up to `await computePadsFromImage(imageDataUrl, 10)`.
handleAnalyze(canvas) ==
    /\ ButtonsRendered
    /\ ~ButtonsDisabled
    /\ loading' = TRUE
    /\ message' = Message("Computing pads...", "")
    /\ acPc' = "sampling"
    /\ acImage' = captured.v
    /\ cbOutcome' = ""
    /\ cbSamples' = <<>>
    /\ cbResp' = NoResponse
    /\ acPrev' = Null
    /\ computePadsFromImage(canvas, AnalyzePadsCount)

\* handleAnalyze resumes with the pads and calls onDiagnosis({ pads }).
AnalyzeSampled ==
    /\ acPc = "sampling"
    /\ psPc = "resolved"
    /\ message' = Message("Calling diagnosis API...", "")
    /\ acPc' = "diagnosing"
    /\ handleDiagnosisRequest(psPads)
    /\ UNCHANGED <<loading, cbSamples, cbResp, cbOutcome, acPrev, acImage>>

\* computePadsFromImage rejected: catch and finally of handleAnalyze.
AnalyzeSamplingFailed ==
    /\ acPc = "sampling"
    /\ psPc = "rejected"
    /\ message' = Message("Analysis failed", "Could not load image")
    /\ loading' = LoadingAfterHandler
    /\ acPc' = "idle"
    /\ UNCHANGED <<cbSamples, cbResp, cbOutcome, acPrev, acImage>>

\* onDiagnosis returned: "Analysis complete.", finally.
AnalyzeDone ==
    /\ acPc = "diagnosing"
    /\ dgPc = "done"
    /\ message' = Message("Analysis complete.", "")
    /\ loading' = LoadingAfterHandler
    /\ acPc' = "idle"
    /\ UNCHANGED <<cbSamples, cbResp, cbOutcome, acPrev, acImage>>

\* The images of the session: capture 1, capture 2, ...
MaxImages == 2
Images == 1..MaxImages

\* App.handleCapture(img): the Capture button (img is a new screenshot) or
\* the Clear button (img is null) of CameraCard.  Both stay enabled while
\* AnalyzerCard is loading.
handleCapture(img) ==
    /\ captured' = img
    /\ diagnosis' = Null
    /\ diagImage' = 0
    /\ refMap' = RefMapAfterCapture
    /\ UNCHANGED <<dgPc, dgPads, dgBody, dgResp, dgRet, dgOutcome>>

\* AnalyzerCard rendered, no handler running.
AcInit ==
    /\ loading = FALSE
    /\ message = Message("", "")
    /\ acPc = "idle"
    /\ cbSamples = <<>>
    /\ cbResp = NoResponse
    /\ cbOutcome = ""
    /\ acPrev = Null
    /\ acImage = 0

dgRest == <<diagnosis, captured, diagImage, dgPc, dgPads, dgBody, dgResp, dgRet, dgOutcome>>

AcNext ==
    \/ \E img \in {Null} \cup { Some(i) : i \in Images } :
          (handleCapture(img) /\ (img.some => img # captured))
             /\ UNCHANGED <<wasmVars, psVars, flVars, acVars>>
    \/ handleCalibrate /\ UNCHANGED <<wasmVars, psVars, flVars, dgVars>>
    \/ \E samples \in ChartSamples :
          CalibrateRespond(samples) /\ UNCHANGED <<wasmVars, psVars, flVars, dgVars>>
    \/ CalibrateRespondNoMapping /\ UNCHANGED <<wasmVars, psVars, flVars, dgVars>>
    \/ CalibrateFetchFails /\ UNCHANGED <<wasmVars, psVars, flVars, dgVars>>
    \/ CalibrateResume /\ UNCHANGED <<wasmVars, psVars, flVars, dgRest>>
    \/ \E canvas \in AppCanvases :
          handleAnalyze(canvas) /\ UNCHANGED <<wasmVars, flVars, dgVars>>
    \/ (acPc = "sampling" /\ ImgOnLoad) /\ UNCHANGED <<wasmVars, flVars, dgVars, acVars>>
    \/ (acPc = "sampling" /\ ImgOnError) /\ UNCHANGED <<wasmVars, flVars, dgVars, acVars>>
    \/ AnalyzeSampled /\ UNCHANGED <<wasmVars, psVars, flVars>>
    \/ AnalyzeSamplingFailed /\ UNCHANGED <<wasmVars, psVars, flVars, dgVars>>
    \/ (acPc = "diagnosing" /\ DiagnoseRespond) /\ UNCHANGED <<wasmVars, psVars, flVars, acVars>>
    \/ (acPc = "diagnosing" /\ DiagnoseFetchFails) /\ UNCHANGED <<wasmVars, psVars, flVars, acVars>>
    \/ (acPc = "diagnosing" /\ DiagnoseResume) /\ UNCHANGED <<wasmVars, psVars, flVars, acVars>>
    \/ AnalyzeDone /\ UNCHANGED <<wasmVars, psVars, flVars, dgVars>>

-----------------------------------------------------------------------------
(* App's callbacks driven by any caller: handleDiagnosisRequest is called
   while calibrations run to completion.  The handlers themselves do not
   exclude each other; in AnalyzerCard the loading flag does. *)

\* The pads a caller hands to onDiagnosis: 9 to 11 sampled colours.
SessionPads == ChartSamples

\* App with an image captured and no calibration yet.
DgSession ==
    /\ refMap = Null
    /\ diagnosis = Null
    /\ captured = Some(1)
    /\ diagImage = 0
    /\ dgPc = "idle"
    /\ dgPads = <<>>
    /\ dgBody = DiagnoseBody(<<>>, <<>>)
    /\ dgResp = DiagnoseEndpoint(DiagnoseBody(<<>>, <<>>))
    /\ dgRet = Null
    /\ dgOutcome = ""

SessNext ==
    \/ handleCalibrate /\ UNCHANGED <<wasmVars, psVars, flVars, dgVars>>
    \/ \E samples \in ChartSamples :
          CalibrateRespond(samples) /\ UNCHANGED <<wasmVars, psVars, flVars, dgVars>>
    \/ CalibrateRespondNoMapping /\ UNCHANGED <<wasmVars, psVars, flVars, dgVars>>
    \/ CalibrateFetchFails /\ UNCHANGED <<wasmVars, psVars, flVars, dgVars>>
    \/ CalibrateResume /\ UNCHANGED <<wasmVars, psVars, flVars, dgRest>>
    \/ \E pads \in SessionPads :
          handleDiagnosisRequest(pads) /\ UNCHANGED <<wasmVars, psVars, flVars, acVars>>
    \/ DiagnoseRespond /\ UNCHANGED <<wasmVars, psVars, flVars, acVars>>
    \/ DiagnoseFetchFails /\ UNCHANGED <<wasmVars, psVars, flVars, acVars>>
    \/ DiagnoseResume /\ UNCHANGED <<wasmVars, psVars, flVars, acVars>>

-----------------------------------------------------------------------------
(* useEIWasm.waitForEI(timeout, interval): polling for window.EI *)

\* Bounds of the clock: it advances in steps of WfTick up to WfSpan after the
\* timeout; a promise is settled at most MaxSettles times.
WfTick == 50
WfSpan == 500
MaxSettles == 2

NoTimer == -1

\* Bug variant of check: reject is not followed by return, so the next poll
\* is scheduled all the same.
checkRejectFallsThrough(ei, nowAt, start, timeout) ==
    IF ei THEN [settle |-> "resolved", again |-> FALSE]
    ELSE IF nowAt - start > timeout THEN [settle |-> "rejected", again |-> TRUE]
    ELSE [settle |-> "", again |-> TRUE]

\* One run of check(): what it settles the promise with, and whether it
\* schedules the next poll.
check(ei, nowAt, start, timeout) ==
    IF ei THEN [settle |-> "resolved", again |-> FALSE]
    ELSE IF nowAt - start > timeout THEN [settle |-> "rejected", again |-> FALSE]
    ELSE [settle |-> "", again |-> TRUE]

\* The promise state after a check: a settled promise stays as it is.
SettledAs(pc, c) == IF pc = "polling" /\ c.settle # "" THEN c.settle ELSE pc

\* waitForEI(timeout, interval) was called: start is taken and check() has
\* run once, synchronously.
waitForEI(timeout, interval) ==
    /\ wfTimeout = timeout
    /\ wfInterval = interval
    /\ wfClock = StartTime
    /\ wfStart = StartTime
    /\ wfEI \in BOOLEAN
    /\ wfLast = [at |-> StartTime, ei |-> wfEI]
    /\ LET c == check(wfEI, StartTime, StartTime, wfTimeout)
       IN /\ wfPc = SettledAs("polling", c)
          /\ wfSettled = (IF c.settle # "" THEN 1 ELSE 0)
          /\ wfDue = (IF c.again THEN StartTime + wfInterval ELSE NoTimer)

WfInit == \E timeout \in {0, 200}, interval \in {100, 150} : waitForEI(timeout, interval)

\* waitForEI not called.
WfOff ==
    /\ wfTimeout = 0
    /\ wfInterval = 0
    /\ wfClock = StartTime
    /\ wfStart = StartTime
    /\ wfEI = FALSE
    /\ wfLast = [at |-> NoTimer, ei |-> FALSE]
    /\ wfPc = "polling"
    /\ wfSettled = 0
    /\ wfDue = NoTimer

\* The timer set by setTimeout(check, interval) fires, at its due time or
\* later, and check() runs.
WfCheck ==
    /\ wfDue # NoTimer
    /\ wfClock >= wfDue
    /\ wfSettled < MaxSettles
    /\ LET c == check(wfEI, wfClock, wfStart, wfTimeout)
       IN /\ wfPc' = SettledAs(wfPc, c)
          /\ wfSettled' = (IF c.settle # "" THEN wfSettled + 1 ELSE wfSettled)
          /\ wfDue' = (IF c.again THEN wfClock + wfInterval ELSE NoTimer)
    /\ wfLast' = [at |-> wfClock, ei |-> wfEI]
    /\ UNCHANGED <<wfTimeout, wfInterval, wfClock, wfStart, wfEI>>

\* The Edge Impulse script defines window.EI.
WfScriptDefinesEI ==
    /\ ~wfEI
    /\ wfEI' = TRUE
    /\ UNCHANGED <<wfTimeout, wfInterval, wfClock, wfStart, wfDue, wfPc, wfSettled, wfLast>>

WfTime ==
    /\ wfClock < wfStart + wfTimeout + WfSpan
    /\ wfClock' = wfClock + WfTick
    /\ UNCHANGED <<wfTimeout, wfInterval, wfStart, wfEI, wfDue, wfPc, wfSettled, wfLast>>

WfNext ==
    \/ WfCheck /\ UNCHANGED <<hkVars, ldVars, clVars, psVars, flVars, dgVars, acVars>>
    \/ WfScriptDefinesEI /\ UNCHANGED <<hkVars, ldVars, clVars, psVars, flVars, dgVars, acVars>>
    \/ WfTime /\ UNCHANGED <<hkVars, ldVars, clVars, psVars, flVars, dgVars, acVars>>

-----------------------------------------------------------------------------
(* useEIWasm: the load effect and its cleanup *)

\* Bug variant of StateUpdateAllowed: the cancelled flag is not tested.
StateUpdateUnguarded(cancelled) == TRUE

\* if (!cancelled): setReady and setError run only before the cleanup.
StateUpdateAllowed(cancelled) == ~cancelled

\* await waitForEI(8000, 100) of load().
HookTimeout == 8000
HookInterval == 100

\* The hook is mounted: the effect has run and load() awaits
\* waitForEI(8000, 100).
HkInit ==
    /\ waitForEI(HookTimeout, HookInterval)
    /\ hkPc = "waiting"
    /\ hkCancelled = FALSE
    /\ hkReady = FALSE
    /\ hkError = Null
    /\ hkRunner = Null
    /\ hkInstance = Null
    /\ hkAtCleanup = Null

\* The hook is not mounted.
HkOff ==
    /\ hkPc = "done"
    /\ hkCancelled = FALSE
    /\ hkReady = FALSE
    /\ hkError = Null
    /\ hkRunner = Null
    /\ hkInstance = Null
    /\ hkAtCleanup = Null

\* waitForEI(8000, 100) resolved: load() calls window.EI.loadImpulse.
HkWaitResolved ==
    /\ hkPc = "waiting"
    /\ wfPc = "resolved"
    /\ hkPc' = "loading"
    /\ UNCHANGED <<hkCancelled, hkReady, hkError, hkRunner, hkInstance, hkAtCleanup>>

\* waitForEI or loadImpulse rejected: the catch block of load().
HkLoadFailed(msg) ==
    /\ \/ hkPc = "waiting" /\ wfPc = "rejected" /\ msg = "window.EI not found"
       \/ hkPc = "loading" /\ msg = "loadImpulse failed"
    /\ hkPc' = "done"
    /\ hkError' = (IF StateUpdateAllowed(hkCancelled) THEN Some(msg) ELSE hkError)
    /\ UNCHANGED <<hkCancelled, hkReady, hkRunner, hkInstance, hkAtCleanup>>

\* loadImpulse resolved with an instance: runnerRef.current = instance, then
\* setReady(true) under if (!cancelled).
HkLoaded(instance) ==
    /\ hkPc = "loading"
    /\ hkPc' = "done"
    /\ hkInstance' = Some(instance)
    /\ hkRunner' = Some(instance)
    /\ hkReady' = (IF StateUpdateAllowed(hkCancelled) THEN TRUE ELSE hkReady)
    /\ UNCHANGED <<hkCancelled, hkError, hkAtCleanup>>

\* The component unmounts: the cleanup sets cancelled.
HkCleanup ==
    /\ ~hkCancelled
    /\ hkCancelled' = TRUE
    /\ hkAtCleanup' = Some([ready |-> hkReady, error |-> hkError])
    /\ UNCHANGED <<hkPc, hkReady, hkError, hkRunner, hkInstance>>

HkNext ==
    \/ HkWaitResolved /\ UNCHANGED <<wfVars, ldVars, clVars, psVars, flVars, dgVars, acVars>>
    \/ \E msg \in {"window.EI not found", "loadImpulse failed"} :
          HkLoadFailed(msg) /\ UNCHANGED <<wfVars, ldVars, clVars, psVars, flVars, dgVars, acVars>>
    \/ \E instance \in {"impulseA", "impulseB"} :
          HkLoaded(instance) /\ UNCHANGED <<wfVars, ldVars, clVars, psVars, flVars, dgVars, acVars>>
    \/ HkCleanup /\ UNCHANGED <<wfVars, ldVars, clVars, psVars, flVars, dgVars, acVars>>
    \/ WfCheck /\ UNCHANGED <<hkVars, ldVars, clVars, psVars, flVars, dgVars, acVars>>
    \/ WfScriptDefinesEI /\ UNCHANGED <<hkVars, ldVars, clVars, psVars, flVars, dgVars, acVars>>
    \/ WfTime /\ UNCHANGED <<hkVars, ldVars, clVars, psVars, flVars, dgVars, acVars>>

-----------------------------------------------------------------------------
(* StripAnalyzer model loading: loadWasm of the YOLO variant with
   EdgeImpulseClassifier.init, and loadModel of the raw-module variant *)

\* waitForGlobal rejects when count > 100.
MaxPolls == 100


\* this._module.calledRun as init() reads it: Emscripten sets it when it runs
\* the module, before onRuntimeInitialized is called.
calledRun == ldRuntime = "ready"

\* The component is mounted: the loader has appended the script element and
\* waits for it (loadScript in loadWasm; nothing is awaited in loadModel).
LdInit ==
    /\ ldVariant \in {"yolo", "raw"}
    /\ ldPc = "script"
    /\ ldLoading = TRUE
    /\ ldClassifier = FALSE
    /\ ldError = ""
    /\ ldCount = 0
    /\ ldGlobal = "none"
    /\ ldRuntime = "none"

\* StripAnalyzer not mounted.
LdOff ==
    /\ ldVariant = "none"
    /\ ldPc = "done"
    /\ ldLoading = TRUE
    /\ ldClassifier = FALSE
    /\ ldError = ""
    /\ ldCount = 0
    /\ ldGlobal = "none"
    /\ ldRuntime = "none"

\* The builds of edge-impulse-standalone.js: one that runs window.Module at
\* once, and a modularized one that defines the factory window.EdgeImpulse.
\* The script element fires load: the script has run.  A module build starts
\* to fetch and instantiate the .wasm file; a factory build only defines
\* window.EdgeImpulse.  loadWasm goes on to waitForGlobal; loadModel has no
\* onload handler and is used with the module build, whose runtime calls the
\* window.Module.onRuntimeInitialized it has set.
ScriptOnLoad(build) ==
    /\ ldPc = "script"
    /\ ldVariant = "raw" => build = "module"
    /\ ldPc' = (IF ldVariant = "yolo" THEN "polling" ELSE "runtime")
    /\ IF build = "factory"
       THEN ldGlobal' = "factory" /\ ldRuntime' = ldRuntime
       ELSE ldGlobal' = ldGlobal /\ ldRuntime' = "starting"
    /\ UNCHANGED <<ldVariant, ldLoading, ldClassifier, ldError, ldCount>>

\* The script element fires error: loadWasm's catch, loadModel's onerror.
ScriptOnError ==
    /\ ldPc = "script"
    /\ ldPc' = "done"
    /\ ldError' = "Failed to load script"
    /\ ldLoading' = FALSE
    /\ UNCHANGED <<ldVariant, ldClassifier, ldCount, ldGlobal, ldRuntime>>

\* The runtime is initialised: run_classifier is bound on window.Module and
\* Module.onRuntimeInitialized is called.  In loadModel that callback is
\* setRunner(window.Module); setIsLoading(false).
RuntimeInitialized ==
    /\ ldRuntime = "starting"
    /\ ldRuntime' = "ready"
    /\ ldGlobal' = (IF ldGlobal = "none" THEN "module" ELSE ldGlobal)
    /\ IF ldVariant = "raw" /\ ldPc = "runtime"
       THEN /\ ldPc' = "done"
            /\ ldClassifier' = TRUE
            /\ ldLoading' = FALSE
            /\ ldError' = ldError
       ELSE IF ldPc = "factory"
       THEN /\ ldPc' = "init"
            /\ UNCHANGED <<ldClassifier, ldLoading, ldError>>
       ELSE UNCHANGED <<ldPc, ldClassifier, ldLoading, ldError>>
    /\ UNCHANGED <<ldVariant, ldCount>>

\* The .wasm file cannot be fetched or instantiated: the runtime aborts.  It
\* calls nothing of the page; the promise of a factory call rejects
\* (loadWasm's catch).
RuntimeAborted ==
    /\ ldRuntime = "starting"
    /\ ldRuntime' = "aborted"
    /\ IF ldPc = "factory"
       THEN /\ ldPc' = "done"
            /\ ldError' = "Aborted"
            /\ ldLoading' = FALSE
       ELSE UNCHANGED <<ldPc, ldError, ldLoading>>
    /\ UNCHANGED <<ldVariant, ldClassifier, ldCount, ldGlobal>>

\* One tick of the setInterval of waitForGlobal: resolves when the global is
\* there, otherwise counts and rejects when count > 100 (loadWasm's catch).
WaitForGlobalTick ==
    /\ ldVariant = "yolo"
    /\ ldPc = "polling"
    /\ IF ldGlobal = "factory"
       THEN /\ ldPc' = "factory"
            /\ ldRuntime' = "starting"
            /\ UNCHANGED <<ldCount, ldError, ldLoading>>
       ELSE IF ldGlobal = "module"
       THEN /\ ldPc' = "init"
            /\ UNCHANGED <<ldCount, ldError, ldLoading, ldRuntime>>
       ELSE /\ ldCount' = ldCount + 1
            /\ ldRuntime' = ldRuntime
            /\ IF ldCount + 1 > MaxPolls
               THEN /\ ldPc' = "done"
                    /\ ldError' = "Timeout: Script loaded but window.EdgeImpulse not found"
                    /\ ldLoading' = FALSE
               ELSE UNCHANGED <<ldPc, ldError, ldLoading>>
    /\ UNCHANGED <<ldVariant, ldClassifier, ldGlobal>>

\* await bridge.init() and the rest of loadWasm: init resolves at once when
\* calledRun is set, otherwise when onRuntimeInitialized is called; then
\* setClassifier(bridge); setIsLoading(false).
BridgeInitResolved ==
    /\ ldVariant = "yolo"
    /\ ldPc = "init"
    /\ calledRun
    /\ ldPc' = "done"
    /\ ldClassifier' = TRUE
    /\ ldLoading' = FALSE
    /\ UNCHANGED <<ldVariant, ldError, ldCount, ldGlobal, ldRuntime>>

LdNext ==
    \/ \E build \in {"module", "factory"} :
          ScriptOnLoad(build) /\ UNCHANGED <<wfVars, hkVars, clVars, psVars, flVars, dgVars, acVars>>
    \/ ScriptOnError /\ UNCHANGED <<wfVars, hkVars, clVars, psVars, flVars, dgVars, acVars>>
    \/ RuntimeInitialized /\ UNCHANGED <<wfVars, hkVars, clVars, psVars, flVars, dgVars, acVars>>
    \/ RuntimeAborted /\ UNCHANGED <<wfVars, hkVars, clVars, psVars, flVars, dgVars, acVars>>
    \/ WaitForGlobalTick /\ UNCHANGED <<wfVars, hkVars, clVars, psVars, flVars, dgVars, acVars>>
    \/ BridgeInitResolved /\ UNCHANGED <<wfVars, hkVars, clVars, psVars, flVars, dgVars, acVars>>

-----------------------------------------------------------------------------
(* EdgeImpulseClassifier.classify(rawData): the heap buffer and the embind
   handles of one call *)

\* Bounds of the inputs: rawData of 0..MaxRaw floats, 0..MaxDets detections.
MaxRaw == 2
MaxDets == 4

\* A classifier whose init() has or has not completed; classify not called.
ClInit ==
    /\ clPc = "idle"
    /\ clInit \in BOOLEAN
    /\ clError = ""
    /\ clMallocs = 0
    /\ clBytes = 0
    /\ clFrees = 0
    /\ clRet = [made |-> FALSE, result |-> 0, size |-> 0, deletes |-> 0]
    /\ clDets = <<>>
    /\ clResults = 0

\* No classifier.
ClOff ==
    /\ clPc = "idle"
    /\ clInit = FALSE
    /\ clError = ""
    /\ clMallocs = 0
    /\ clBytes = 0
    /\ clFrees = 0
    /\ clRet = [made |-> FALSE, result |-> 0, size |-> 0, deletes |-> 0]
    /\ clDets = <<>>
    /\ clResults = 0

\* classify(rawData) up to module.run_classifier: the initialisation test,
\* then _malloc(typedArray.length * 4) and the copy to the heap.
classify(len) ==
    /\ clPc = "idle"
    /\ IF ~clInit
       THEN /\ clPc' = "threw"
            /\ clError' = "Module is not initialized"
            /\ UNCHANGED <<clMallocs, clBytes>>
       ELSE /\ clPc' = "allocated"
            /\ clMallocs' = clMallocs + 1
            /\ clBytes' = len * 4
            /\ clError' = clError
    /\ UNCHANGED <<clInit, clFrees, clRet, clDets, clResults>>

\* module.run_classifier returns the native result; module._free(ptr); a
\* result code other than 0 throws "Classification failed".
run_classifier(result, size) ==
    /\ clPc = "allocated"
    /\ clRet' = [made |-> TRUE, result |-> result, size |-> size, deletes |-> 0]
    /\ clFrees' = clFrees + 1
    /\ IF result # 0
       THEN /\ clPc' = "threw"
            /\ clError' = "Classification failed"
            /\ clDets' = clDets
       ELSE /\ clPc' = "extracting"
            /\ clError' = clError
            /\ clDets' = [i \in 1..size |-> [got |-> 0, deletes |-> 0]]
    /\ UNCHANGED <<clInit, clMallocs, clBytes, clResults>>

\* The detection the for loop is at: the first one not yet deleted.
NextDet ==
    IF \E i \in 1..Len(clDets) : clDets[i].deletes = 0
    THEN CHOOSE i \in 1..Len(clDets) :
           clDets[i].deletes = 0 /\ \A j \in 1..(i - 1) : clDets[j].deletes > 0
    ELSE 0

\* let c = ret.get(i); jsResult.results.push({...}).
RetGet ==
    /\ clPc = "extracting"
    /\ NextDet # 0
    /\ clDets[NextDet].got = 0
    /\ clDets' = [clDets EXCEPT ![NextDet].got = 1]
    /\ clResults' = clResults + 1
    /\ UNCHANGED <<clPc, clInit, clError, clMallocs, clBytes, clFrees, clRet>>

\* c.delete().
DetDelete ==
    /\ clPc = "extracting"
    /\ NextDet # 0
    /\ clDets[NextDet].got = 1
    /\ clDets' = [clDets EXCEPT ![NextDet].deletes = @ + 1]
    /\ UNCHANGED <<clPc, clInit, clError, clMallocs, clBytes, clFrees, clRet, clResults>>

\* The loop is over: ret.delete(); return jsResult.
ClassifyReturn ==
    /\ clPc = "extracting"
    /\ NextDet = 0
    /\ clRet' = [clRet EXCEPT !.deletes = @ + 1]
    /\ clPc' = "returned"
    /\ UNCHANGED <<clInit, clError, clMallocs, clBytes, clFrees, clDets, clResults>>

ClNext ==
    \/ \E len \in 0..MaxRaw :
          classify(len) /\ UNCHANGED <<wfVars, hkVars, ldVars, psVars, flVars, dgVars, acVars>>
    \/ \E result \in {0, -1, -2}, size \in 0..MaxDets :
          run_classifier(result, size)
             /\ UNCHANGED <<wfVars, hkVars, ldVars, psVars, flVars, dgVars, acVars>>
    \/ RetGet /\ UNCHANGED <<wfVars, hkVars, ldVars, psVars, flVars, dgVars, acVars>>
    \/ DetDelete /\ UNCHANGED <<wfVars, hkVars, ldVars, psVars, flVars, dgVars, acVars>>
    \/ ClassifyReturn /\ UNCHANGED <<wfVars, hkVars, ldVars, psVars, flVars, dgVars, acVars>>

-----------------------------------------------------------------------------
(* Specifications: one per component, the others held still *)

\* The WASM bridge and its loaders are not in use.
WasmOff == WfOff /\ HkOff /\ LdOff /\ ClOff

InitPads == PsInit /\ FlOff /\ DgOff /\ AcInit /\ WasmOff
InitLoop == PsInit /\ FlInit /\ DgOff /\ AcInit /\ WasmOff
InitDiag == PsInit /\ FlOff /\ DgInit /\ AcInit /\ WasmOff
InitApp == PsInit /\ FlOff /\ DgOff /\ AcInit /\ WasmOff

SpecPads == InitPads /\ [][PsNext]_vars

SpecLoop == InitLoop /\ [][FlNext]_vars

SpecDiag == InitDiag /\ [][DgNext]_vars

SpecApp == InitApp /\ [][AcNext]_vars

InitSession == PsInit /\ FlOff /\ DgSession /\ AcInit /\ WasmOff

SpecSession == InitSession /\ [][SessNext]_vars

InitWait == PsInit /\ FlOff /\ DgOff /\ AcInit /\ WfInit /\ HkOff /\ LdOff /\ ClOff

\* Timers that are due fire and time passes.
SpecWait ==
    /\ InitWait
    /\ [][WfNext]_vars
    /\ WF_vars(WfCheck /\ UNCHANGED <<hkVars, ldVars, clVars, psVars, flVars, dgVars, acVars>>)
    /\ WF_vars(WfTime /\ UNCHANGED <<hkVars, ldVars, clVars, psVars, flVars, dgVars, acVars>>)

InitHook == PsInit /\ FlOff /\ DgOff /\ AcInit /\ HkInit /\ LdOff /\ ClOff

SpecHook == InitHook /\ [][HkNext]_vars

InitLoad == PsInit /\ FlOff /\ DgOff /\ AcInit /\ WfOff /\ HkOff /\ LdInit /\ ClOff

\* The browser delivers every event that is due: the script's load or error
\* event, the end of the runtime's start, the interval's ticks.
SpecLoad == InitLoad /\ [][LdNext]_vars /\ WF_vars(LdNext)

InitClassify == PsInit /\ FlOff /\ DgOff /\ AcInit /\ WfOff /\ HkOff /\ LdOff /\ ClInit

SpecClassify == InitClassify /\ [][ClNext]_vars

-----------------------------------------------------------------------------
(* Claims *)

IsChannel(v) == v \in 0..255

(* C1: whenever computePadsFromImage has resolved, it resolved with exactly
   padsCount samples, sample k is the colour sampled for band k (bands
   counted from the top), and every channel of every sample is an integer in
   0..255. *)
C1_ExactlyNSamplesInRange ==
    psPc = "resolved" =>
        /\ Len(psPads) = psCount
        /\ \A k \in 1..Len(psPads) :
              /\ psPads[k] = PadColor(psCanvas, k - 1, psCount)
              /\ IsChannel(psPads[k].r)
              /\ IsChannel(psPads[k].g)
              /\ IsChannel(psPads[k].b)

\* A call with more pads than the canvas has rows (padH = 0) has resolved.
C1_Witness ==
    /\ psPc = "resolved"
    /\ psCount = MaxPads
    /\ psCanvas.h < psCount
    /\ Len(psPads) = MaxPads

(* C2: any two detections accepted by the mounted StripAnalyzer are accepted
   at least one cooldown interval apart, over the whole lifetime of the
   component (as stated by the claim; the code does not keep it). *)
C2_CooldownBetweenAccepted ==
    Len(accepted) = 2 => accepted[2].at - accepted[1].at >= Cooldown(variant)

(* C3: every accepted detection had a confidence strictly greater than the
   acceptance threshold, and that threshold lies within [0.6, 0.85] (as
   stated by the claim; the code does not keep it). *)
C3_AcceptedAboveThresholdInRange ==
    \A k \in 1..Len(accepted) :
        /\ accepted[k].conf > Threshold(variant)
        /\ Threshold(variant) >= 60
        /\ Threshold(variant) <= 85

(* C4, as stated by the claim: at any moment at most one request of the
   frame loop is outstanding. *)
C4_AtMostOneOutstanding == Len(inflight) <= 1

(* C4, amended: two outstanding requests issued by the same run of the
   frame-loop effect passed the gate at Date.now() readings more than one
   cooldown interval apart. *)
C4_SameRunRequestsSpaced ==
    \A j \in 1..Len(inflight), k \in 1..Len(inflight) :
        (j < k /\ inflight[j].loop = inflight[k].loop)
            => inflight[k].gate - inflight[j].gate > Cooldown(variant)

\* The YOLO loop, its effect never re-run, has two requests outstanding at
\* once: the first one is still unanswered when the cooldown has passed.
C4_Witness ==
    /\ variant = "yolo"
    /\ Len(loops) = 1
    /\ Len(inflight) = 2
    /\ inflight[2].gate - inflight[1].gate > sendCooldown

\* What a finished diagnosis call returned, and its inputs.
DgOk == dgPc = "done" /\ dgOutcome = "ok"
DgM == refMap.v
DgP == dgPads
DgR == dgRet.v.diagnoses

\* The diagnoses a call on pads P and mapping M ends with.
Outcome(P, M) == diagnosePadsResult(DiagnoseEndpoint(DiagnoseBody(P, M))).json.diagnoses

(* C5: positional matching: result i carries the analyte and the level label
   of reference row i, and replacing any other pad P[j] or any other row
   M[j], j # i, by any other value leaves result i as it is. *)
C5_Positional ==
    DgOk =>
        \A i \in 1..Len(DgR) :
            /\ DgR[i].analyte = DgM[i].analyte
            /\ DgR[i].diagnosis = DgM[i].level
            /\ \A j \in (1..Len(DgR)) \ {i} :
                  /\ \A c \in Palette :
                        Outcome([DgP EXCEPT ![j] = c], DgM)[i] = DgR[i]
                  /\ \A row \in RefRows :
                        Outcome(DgP, [DgM EXCEPT ![j] = row])[i] = DgR[i]

\* A call with two different pads and two different rows has returned.
C5_Witness ==
    /\ DgOk
    /\ Len(DgR) >= 2
    /\ DgP[1] # DgP[2]
    /\ DgM[1] # DgM[2]

(* C6: with |P| = |M| the call returns exactly |M| results and result k is
   the one of pad k and reference row k. *)
C6_ResultsIndexAligned ==
    (dgPc = "done" /\ refMap.some /\ Len(dgPads) = Len(DgM)
        /\ dgOutcome # "fetchFailed") =>
        /\ dgOutcome = "ok"
        /\ Len(DgR) = Len(DgM)
        /\ \A k \in 1..Len(DgM) :
              DgR[k] = [analyte |-> DgM[k].analyte,
                        diagnosis |-> DgM[k].level,
                        confidence |-> Confidence(DgP[k], DgM[k].color)]

\* A call with MaxN pads whose rows differ in label and in colour, and whose
\* pads differ, has returned.
C6_Witness ==
    /\ DgOk
    /\ Len(DgR) = MaxN
    /\ DgM[1].level # DgM[2].level
    /\ DgM[1].color # DgM[2].color
    /\ DgP[1] # DgP[2]

(* C7: exact-match law: when every pad colour equals the reference colour of
   its row, every result has confidence exactly 1.0. *)
C7_ExactMatch ==
    (DgOk /\ \A i \in 1..Len(DgP) : DgP[i] = DgM[i].color) =>
        \A i \in 1..Len(DgR) : ConfIsOne(DgR[i].confidence)

\* An exact match over at least two rows of different colours has returned.
C7_Witness ==
    /\ DgOk
    /\ Len(DgP) >= 2
    /\ \A i \in 1..Len(DgP) : DgP[i] = DgM[i].color
    /\ \E i \in 1..Len(DgP) : DgP[i] = RGB(10, 201, 77)
    /\ DgP[1] # DgP[2]

Black == RGB(0, 0, 0)
White == RGB(255, 255, 255)
MaximalMismatch(p, q) == (p = Black /\ q = White) \/ (p = White /\ q = Black)

(* C8: maximal-mismatch law: a black pad against a white reference colour,
   or a white pad against a black one, has confidence exactly 0.0. *)
C8_MaximalMismatch ==
    DgOk =>
        \A i \in 1..Len(DgR) :
            MaximalMismatch(DgP[i], DgM[i].color) => ConfIsZero(DgR[i].confidence)

\* Both directions of the maximal mismatch occur in one returned call.
C8_Witness ==
    /\ DgOk
    /\ Len(DgR) >= 2
    /\ DgP[1] = Black /\ DgM[1].color = White
    /\ DgP[2] = White /\ DgM[2].color = Black

(* C9: every confidence lies in [0,1], and a pad with a larger squared RGB
   distance to its reference colour never gets a higher confidence than a
   pad with a smaller one. *)
C9_ConfidenceRangeMonotone ==
    DgOk =>
        /\ \A i \in 1..Len(DgR) : ConfInUnitInterval(DgR[i].confidence)
        /\ \A i \in 1..Len(DgR), j \in 1..Len(DgR) :
              ColorDist2(DgP[i], DgM[i].color) > ColorDist2(DgP[j], DgM[j].color)
                 => ~ConfHigher(DgR[i].confidence, DgR[j].confidence)

\* Two pads at different non-zero distances below the maximum have results.
C9_Witness ==
    /\ DgOk
    /\ \E i \in 1..Len(DgR), j \in 1..Len(DgR) :
          /\ ColorDist2(DgP[i], DgM[i].color) > ColorDist2(DgP[j], DgM[j].color)
          /\ ColorDist2(DgP[j], DgM[j].color) > 0
          /\ ColorDist2(DgP[i], DgM[i].color) < dMax2
          /\ ConfHigher(DgR[j].confidence, DgR[i].confidence)

(* C10: a diagnosis call whose pad count differs from the length of the
   reference map fails with ShapeMismatch, returns no result list and shows
   none; with equal lengths the matcher does not fail and the call returns
   one result per pad. *)
C10_ShapeMismatch ==
    (dgPc = "done" /\ refMap.some /\ dgOutcome # "fetchFailed") =>
        IF Len(dgPads) # Len(DgM)
        THEN /\ dgOutcome = "ShapeMismatch"
             /\ dgRet = Null
             /\ diagnosis = Null
        ELSE /\ dgOutcome = "ok"
             /\ dgRet.some
             /\ dgRet.v.hasDiagnoses
             /\ Len(DgR) = Len(dgPads)
             /\ diagnosis = Some(DgR)

\* A call with fewer pads than reference rows has failed.
C10_Witness ==
    /\ dgPc = "done"
    /\ refMap.some
    /\ Len(dgPads) < Len(DgM)
    /\ Len(dgPads) > 0
    /\ dgOutcome = "ShapeMismatch"

\* The bands of the resolved call.
PsH == psCanvas.h
PsBandY0(i) == BandY0(i, PsH, psCount)
PsBandH(i) == BandH(i, PsH, psCount)
PsRect(i) == SampleRect(i, PsH, psCount)

(* C13: the bands of a resolved call tile [0, H): band 0 starts at 0, each
   band starts where the previous one ends, the first N-1 bands have height
   floor(H/N), the last band ends at H, and every row of the canvas lies in
   exactly one band. *)
C13_BandsTile ==
    psPc = "resolved" =>
        /\ PsBandY0(0) = 0
        /\ \A i \in 0..(psCount - 2) :
              /\ PsBandH(i) = PsH \div psCount
              /\ PsBandY0(i + 1) = PsBandY0(i) + PsBandH(i)
        /\ \A i \in 0..(psCount - 1) : PsBandH(i) >= 0
        /\ PsBandY0(psCount - 1) + PsBandH(psCount - 1) = PsH
        /\ \A y \in 0..(PsH - 1) :
              Cardinality({ i \in 0..(psCount - 1) :
                              y >= PsBandY0(i) /\ y < PsBandY0(i) + PsBandH(i) }) = 1

\* A call with at least two bands of positive height and a remainder has
\* resolved.
C13_Witness ==
    /\ psPc = "resolved"
    /\ psCount >= 2
    /\ PsH \div psCount >= 1
    /\ PsH % psCount # 0

(* C14, as stated by the claim: the rectangle sampled for band i lies within
   band i (rows) and within the working width (columns), also when the
   minimum span of 4 rows is applied.  The code does not keep it. *)
C14_RectWithinBand ==
    psPc = "resolved" =>
        \A i \in 0..(psCount - 1) :
            /\ PsRect(i).x >= 0
            /\ PsRect(i).x + PsRect(i).w <= W
            /\ PsRect(i).y >= PsBandY0(i)
            /\ PsRect(i).y + PsRect(i).hh <= PsBandY0(i) + PsBandH(i)

(* C15, as stated by the claim: the call resolves with N samples, and a band
   whose inset span is not positive contributes the sentinel colour
   (255,255,255) at its own index.  The code does not keep it. *)
C15_DegenerateSpanSentinel ==
    psPc = "resolved" =>
        /\ Len(psPads) = psCount
        /\ \A i \in 0..(psCount - 1) :
              (PsRect(i).w <= 0 \/ InsetSpan(i, PsH, psCount) <= 0)
                 => psPads[i + 1] = RGB(255, 255, 255)

\* Reference sum of one channel over the rectangle q: per row of the canvas,
\* the columns left of the edge carry the row's colour, the others bg; rows
\* and columns outside the bitmap read 0.
ColsIn(q, a, b) == Max(0, Min(q.x + q.w, b) - Max(q.x, a))
RefRowSum(canvas, ch, q, y) ==
    IF y < 0 \/ y >= canvas.h THEN 0
    ELSE ColsIn(q, 0, Min(canvas.edge, W)) * Chan(canvas.rows[y + 1], ch)
         + ColsIn(q, Min(canvas.edge, W), W) * Chan(canvas.bg, ch)
RECURSIVE RefSum(_, _, _, _)
RefSum(canvas, ch, q, k) ==
    IF k >= q.hh THEN 0
    ELSE RefRowSum(canvas, ch, q, q.y + k) + RefSum(canvas, ch, q, k + 1)

\* m is s / c rounded to the nearest integer, a tie going up.
IsRoundedMean(m, s, c) == 2 * c * m - c <= 2 * s /\ 2 * s < 2 * c * m + c

(* C16: every channel of the colour returned for a band is the arithmetic
   mean of that channel over the w * hh pixels of the band's sampled
   rectangle, rounded to the nearest integer. *)
C16_RoundedMean ==
    psPc = "resolved" =>
        \A i \in 0..(psCount - 1) :
            \A ch \in {"r", "g", "b"} :
                IsRoundedMean(Chan(psPads[i + 1], ch),
                              RefSum(psCanvas, ch, PsRect(i), 0),
                              PsRect(i).w * PsRect(i).hh)

\* A band sampled inside the canvas whose red mean is an exact tie (x.5) has
\* been returned.
C16_Witness ==
    /\ psPc = "resolved"
    /\ \E i \in 0..(psCount - 1) :
          /\ PsRect(i).y + PsRect(i).hh <= PsH
          /\ 2 * RefSum(psCanvas, "r", PsRect(i), 0) % (2 * PsRect(i).w * PsRect(i).hh)
                = PsRect(i).w * PsRect(i).hh

\* The detector box of det rescaled to the frame, and its part inside the
\* frame, as [left, top, right, bottom].
ScaledBox(det) ==
    [left   |-> (det.x * videoWidth) \div modelWidth,
     top    |-> (det.y * videoHeight) \div modelHeight,
     right  |-> ((det.x + det.width) * videoWidth) \div modelWidth,
     bottom |-> ((det.y + det.height) * videoHeight) \div modelHeight]
ClippedBox(det) ==
    [left   |-> Min(Max(ScaledBox(det).left, 0), videoWidth),
     top    |-> Min(Max(ScaledBox(det).top, 0), videoHeight),
     right  |-> Min(Max(ScaledBox(det).right, 0), videoWidth),
     bottom |-> Min(Max(ScaledBox(det).bottom, 0), videoHeight)]
ClippedArea(det) ==
    Max(0, ClippedBox(det).right - ClippedBox(det).left)
        * Max(0, ClippedBox(det).bottom - ClippedBox(det).top)

\* The part of the frame read for the crop of det.
CropRead(det) == drawImageSource(captureCrop(det))

(* C18, as stated by the claim: the rectangle read from the frame for a crop
   lies within [0, videoWidth] x [0, videoHeight] and is the detector box
   clipped to the frame, not a shifted one.  The code does not keep it. *)
C18_CropClippedToFrame ==
    \A L \in 1..Len(loops) :
        loops[L].susp = "crop" =>
            /\ CropRead(loops[L].det).x >= 0
            /\ CropRead(loops[L].det).y >= 0
            /\ CropRead(loops[L].det).x + CropRead(loops[L].det).w <= videoWidth
            /\ CropRead(loops[L].det).y + CropRead(loops[L].det).h <= videoHeight
            /\ CropRead(loops[L].det).x = ClippedBox(loops[L].det).left
            /\ CropRead(loops[L].det).y = ClippedBox(loops[L].det).top
            /\ CropRead(loops[L].det).x + CropRead(loops[L].det).w
                  = ClippedBox(loops[L].det).right
            /\ CropRead(loops[L].det).y + CropRead(loops[L].det).h
                  = ClippedBox(loops[L].det).bottom

(* C19, as stated by the claim: a detector box whose intersection with the
   frame has zero area produces no crop, so no step waits for a crop of it
   and nothing is sent for it.  The code does not keep it. *)
C19_NoRegionNothingSent ==
    \A L \in 1..Len(loops) :
        loops[L].susp = "crop" => ClippedArea(loops[L].det) > 0

(* C20: after a frame whose detection passed the threshold and cooldown
   tests and whose crop failed, lastSent has not advanced: an acceptable
   detection passes the gate of the very next frame. *)
C20_NoRegionRetried ==
    \A L \in 1..Len(loops) :
        loops[L].noRegion => YoloGate(L, Det("urine_strip", 90, GoodBox))

\* A crop failed in a run that had sent a request before.
C20_Witness ==
    \E L \in 1..Len(loops) :
        /\ loops[L].noRegion
        /\ loops[L].lastSent > 0
        /\ loops[L].susp = "none"

\* A handleCalibrate call has ended and no handler has started since.
CalibrateEnded == acPc = "idle" /\ cbOutcome # ""

(* C11: a calibration whose sampled row count differs from expected_rows
   ends with CalibrationMismatch and yields no reference map; a calibration
   that succeeds stores a map of exactly expected_rows entries, entry i
   pairing sample i with label i. *)
C11_CalibrationMismatch ==
    (CalibrateEnded /\ cbResp # NoMappingResponse /\ cbOutcome # "fetchFailed") =>
        IF Len(cbSamples) # expected_rows
        THEN /\ cbOutcome = "CalibrationMismatch"
             /\ refMap = acPrev
        ELSE /\ cbOutcome = "ok"
             /\ refMap.some
             /\ Len(refMap.v) = expected_rows
             /\ \A i \in 1..expected_rows :
                   refMap.v[i] = [analyte |-> CalibLabels[i].analyte,
                                  level |-> CalibLabels[i].level,
                                  color |-> cbSamples[i]]

\* A calibration with one row too many has ended while an earlier map is
\* stored.
C11_Witness ==
    /\ CalibrateEnded
    /\ Len(cbSamples) = expected_rows + 1
    /\ cbOutcome = "CalibrationMismatch"
    /\ refMap.some

(* C12: when a calibration fails (response not OK, network error, or a
   response without a mapping), the message reports the failure and the
   stored reference map is the one from before the attempt. *)
C12_FailedCalibrationKeepsMap ==
    (CalibrateEnded /\ cbOutcome # "ok") =>
        /\ message.text = "Calibration failed"
        /\ message.detail # ""
        /\ refMap = acPrev
        /\ ~loading

\* A response without a mapping has been handled while a map was stored.
C12_Witness ==
    /\ CalibrateEnded
    /\ cbOutcome = "noMapping"
    /\ acPrev.some

(* C17: the pads posted to the diagnosis boundary are the pads the sampler
   resolved with: same length, and element k is the colour of band k from
   the top. *)
C17_PadOrderPreserved ==
    (acPc = "diagnosing" /\ dgPc \in {"fetching", "responded"}) =>
        /\ dgPads = psPads
        /\ Len(dgBody.pads) = Len(psPads)
        /\ Len(dgBody.pads) = AnalyzePadsCount
        /\ \A k \in 1..Len(psPads) :
              dgBody.pads[k] = PadColor(psCanvas, k - 1, psCount)

\* A request is in flight whose first two pads differ from each other and
\* from the third.
C17_Witness ==
    /\ acPc = "diagnosing"
    /\ dgPc = "fetching"
    /\ dgBody.pads[1] # dgBody.pads[2]
    /\ dgBody.pads[2] # dgBody.pads[3]
    /\ dgBody.pads[1] # dgBody.pads[3]


\* The README's lock threshold, in percent: "Once confidence > 85%".
LockThreshold == 85

\* C23: the YOLO loop locks onto a strip (crops it and sends it) only when
\* the detection's confidence is above 85%: no accepted detection has a
\* confidence at or below 0.85.
C23_LockOnlyAbove85 ==
    variant = "yolo" =>
        \A k \in 1..Len(accepted) : accepted[k].conf > LockThreshold

\* The effect runs whose cleanup has run: every run but the current one.
CleanedUp(L) == L \in 1..Len(loops) /\ L # cur

\* C24: once the cleanup of an effect run has run, that run has no
\* animation frame scheduled when no step of it is suspended at an await: the
\* step in flight may finish, and nothing of the run goes on after it.
C24_TeardownStopsLoop ==
    variant \in {"yolo", "ssd"} =>
        \A L \in 1..Len(loops) :
            (CleanedUp(L) /\ loops[L].susp = "none") => loops[L].pending = 0

\* C29: a frame of the YOLO loop that holds a urine_strip detection above the
\* threshold with a non-empty crop, while the cooldown has elapsed, has that
\* strip sent: no frame step leaves such a strip unsent.
C29_QualifyingStripSent ==
    \A L \in 1..Len(loops) : ~loops[L].starved


\* A request is on its way to, or back from, the diagnosis boundary.
DgInFlight == dgPc \in {"fetching", "responded"}

(* C21: copy-on-write recalibration: a diagnosis request is issued with the
   mapping stored at that moment and its body is not altered from then until
   handleDiagnosisRequest has resumed; a calibration that completes meanwhile
   replaces the stored mapping by the new one. *)
C21_CopyOnWrite ==
    [][ /\ (dgPc = "idle" /\ dgPc' = "fetching")
            => dgBody' = DiagnoseBody(dgPads', refMap.v)
        /\ DgInFlight => dgBody' = dgBody
        /\ (acPc = "calibrated" /\ cbOutcome' = "ok")
            => refMap' = Some(cbResp.mapping) ]_vars

\* A request has been answered while it carried the mapping it was issued
\* with, after a calibration replaced the stored mapping by another one.
C21_Witness ==
    /\ dgPc = "responded"
    /\ refMap.some
    /\ refMap.v # dgBody.ref_map
    /\ Len(dgBody.ref_map) = expected_rows
    /\ cbOutcome = "ok"
    /\ refMap = Some(cbResp.mapping)

(* C22: a request at the diagnosis boundary carries the stored mapping, and
   a mapping gets stored only when handleCalibrate resumes with a response
   that did not throw; a handleDiagnosisRequest call made while no mapping is
   stored ends at once, sends nothing and leaves the shown diagnosis as it
   was. *)
C22_NoMapNoRequest ==
    /\ [](DgInFlight => (refMap.some /\ dgBody.ref_map = refMap.v))
    /\ [][ /\ (~refMap.some /\ refMap'.some)
               => (acPc = "calibrated" /\ ~calibrateResult(cbResp).threw)
           /\ (dgPc = "idle" /\ dgPc' # "idle" /\ ~refMap.some)
               => /\ dgPc' = "done"
                  /\ dgOutcome' = "noCalibration"
                  /\ diagnosis' = diagnosis
                  /\ dgBody' = dgBody
                  /\ dgResp' = dgResp ]_vars

\* handleAnalyze called onDiagnosis while no mapping was stored.
C22_Witness ==
    /\ acPc = "diagnosing"
    /\ dgPc = "done"
    /\ dgOutcome = "noCalibration"
    /\ ~refMap.some

(* C25: a step that changes the captured image sets the shown diagnosis to
   none and keeps the stored mapping; every step of a diagnosis request keeps
   the stored mapping. *)
C25_MapPersists ==
    [][ /\ (captured' # captured) => (diagnosis' = Null /\ refMap' = refMap)
        /\ (dgPc' # dgPc) => refMap' = refMap ]_vars

\* A diagnosis was shown, a capture or clear removed it, the mapping stays.
C25_Witness ==
    /\ dgPc = "done"
    /\ dgOutcome = "ok"
    /\ diagnosis = Null
    /\ refMap.some

\* C26: when handleAnalyze has ended with "Analysis complete.", the diagnosis
\* request of that analysis succeeded.
C26_CompleteOnlyOnSuccess ==
    (acPc = "idle" /\ message.text = "Analysis complete.") => dgOutcome = "ok"

\* C27: a diagnosis that is shown was computed from the image now held in
\* captured.
C27_DiagnosisOfCapturedImage ==
    diagnosis.some => (captured.some /\ captured.v = diagImage)

(* C28: the stored mapping changes only in the step in which handleCalibrate
   resumes with an OK response that carries a mapping, and becomes that
   mapping; a stored mapping never becomes none. *)
C28_MapChangesOnlyByCalibration ==
    [][ /\ (refMap' # refMap)
            => /\ acPc = "calibrated"
               /\ cbResp.ok
               /\ cbResp.hasMapping
               /\ refMap' = Some(cbResp.mapping)
        /\ refMap.some => refMap'.some ]_vars

\* A calibration replaced a stored mapping by a different one.
C28_Witness ==
    /\ CalibrateEnded
    /\ cbOutcome = "ok"
    /\ acPrev.some
    /\ refMap # acPrev
    /\ refMap = Some(cbResp.mapping)

(* C30: loading is true exactly while handleCalibrate or handleAnalyze is
   between its start and its end, and while it is, neither handler can be
   started. *)
C30_LoadingWhileInProgress ==
    /\ loading <=> acPc # "idle"
    /\ acPc # "idle" =>
          /\ ~ENABLED handleCalibrate
          /\ ~ENABLED (\E canvas \in AppCanvases : handleAnalyze(canvas))

\* A calibration ended by a failure and loading is false again.
C30_Witness ==
    /\ acPc = "idle"
    /\ ~loading
    /\ cbOutcome \notin {"", "ok"}
    /\ captured.some


(* C31: model loading always ends: the component eventually has isLoading
   false with a classifier set or a non-empty error message. *)
C31_LoadingEnds ==
    <>(~ldLoading /\ (ldClassifier \/ ldError # ""))

(* C32: waitForEI settles exactly once and then has no poll scheduled; it is
   resolved by a poll that saw window.EI, rejected by a poll that did not and
   ran later than timeout ms after the start, and while it is pending the last
   poll saw no window.EI, ran within the timeout and scheduled the next one;
   it settles eventually. *)
C32_SettlesExactlyOnce ==
    /\ [](/\ wfSettled = (IF wfPc = "polling" THEN 0 ELSE 1)
          /\ wfPc # "polling" => wfDue = NoTimer
          /\ wfPc = "resolved" => wfLast.ei
          /\ wfPc = "rejected" =>
                (~wfLast.ei /\ wfLast.at - wfStart > wfTimeout)
          /\ wfPc = "polling" =>
                /\ ~wfLast.ei
                /\ wfLast.at - wfStart <= wfTimeout
                /\ wfDue = wfLast.at + wfInterval)
    /\ <>(wfPc # "polling")

\* Rejected by a poll after the first one, once the timeout had passed.
C32_Witness ==
    /\ wfPc = "rejected"
    /\ wfSettled = 1
    /\ wfLast.at > wfStart + wfTimeout
    /\ wfTimeout > 0
    /\ wfDue = NoTimer

(* C33: ready and error are never both set, ready implies that runnerRef
   holds the instance loadImpulse resolved with, and after the cleanup ready
   and error stay as they were when it ran. *)
C33_CancelledLoadChangesNothing ==
    /\ ~(hkReady /\ hkError.some)
    /\ hkReady => (hkRunner.some /\ hkRunner = hkInstance)
    /\ hkCancelled =>
          (hkAtCleanup.some /\ hkAtCleanup.v = [ready |-> hkReady, error |-> hkError])

\* A load completed after the cleanup: the instance is in runnerRef and ready
\* is still false.
C33_Witness ==
    /\ hkCancelled
    /\ hkPc = "done"
    /\ hkRunner.some
    /\ ~hkReady
    /\ ~hkError.some

(* C34: when classify has returned or thrown, the heap buffer it allocated
   has been freed once, the native result it obtained has been deleted once
   and so has every detection handle it obtained; a call before
   initialisation allocates nothing. *)
C34_ReleasesEverything ==
    /\ clPc \in {"returned", "threw"} =>
          /\ clFrees = clMallocs
          /\ clRet.made => clRet.deletes = 1
          /\ \A i \in 1..Len(clDets) :
                clDets[i].got = 1 => clDets[i].deletes = 1
    /\ (clPc = "threw" /\ clError = "Module is not initialized") =>
          (clMallocs = 0 /\ ~clRet.made)

=============================================================================
